---- MODULE Spec2Model ----
(***************************************************************************)
(* Call-graph construction of rustig:                                      *)
(* X86CallGraphBuilder::build_call_graph                                   *)
(* (lib/callgraph/src/callgraph/x86_cg_builder.rs).                        *)
(*                                                                         *)
(* The builder is in the source.  The InvocationFinder implementations it  *)
(* calls are not; they are modelled from section 4.2 of the specification. *)
(*                                                                         *)
(* The command-line front end is modelled beside it: get_args              *)
(* (src/cmd_args.rs) under SpecArgs, print_results (src/output.rs) under   *)
(* SpecOutput.                                                             *)
(***************************************************************************)
EXTENDS Integers, Sequences, FiniteSets

VARIABLES
    units,        \* ctx: what the iterator over the compilation units yields
    procs,        \* the flattened Vec<Procedure> of all compilation units
    finders,      \* self.invocation_finders, in configured order
    nodes,        \* graph: node index -> Procedure
    edges,        \* graph: edge index -> Invocation
    proc_index,   \* HashMap start address -> node index
    call_index,   \* HashMap call/jump instruction address -> node index
    placeholders, \* node indices added by Finders for callees without definition
    unresolved,   \* call sites the VTable finder flagged as unresolved
    i,            \* number of procedures the population pass has consumed
    fi,           \* number of Finders invoked so far
    active,       \* positions (in finders) of the Finders currently executing
    calls,        \* log: positions of the Finders in the order they were invoked
    pc,           \* "flatten", then "build" while build_call_graph executes;
                  \* "done" once it returned, "panicked" once it panicked
    run,          \* which build of the same Context this is (1 or 2)
    first,        \* the CallGraph returned by build 1
    args,         \* the command line the process was started with
    cpc,          \* position of the command-line process
    stderr,       \* what the process has written to standard error
    exit_status,  \* Some(status) once std::process::exit was called
    ret,          \* Some(value) once get_args has returned
    options,      \* the OutputOptions handed to print_results
    results,      \* the PanicCallsCollection handed to print_results
    used,         \* log: the streams whose print_output was called
    stdout        \* what the process has written to standard output

\* The state of the command-line front end.
cliVars == <<args, cpc, stderr, exit_status, ret, options, results, used,
             stdout>>

vars == <<units, procs, finders, nodes, edges, proc_index, call_index, placeholders,
          unresolved, i, fi, active, calls, pc, run, first, cliVars>>

(***************************************************************************)
(* Bounds of the model.                                                    *)
(***************************************************************************)
\* Largest number of procedures in a Context.
MaxProcs == 2
\* Number of instructions in a procedure's disassembly.
ProcLen == 2

(***************************************************************************)
(* Instruction groups of the disassembly engine.                           *)
(***************************************************************************)
group_calls == 2
group_jumps == 1
\* The groups of an instruction that neither calls nor jumps (RET of the same
\* engine).
OtherGroups == {3}

(***************************************************************************)
(* The Context: procedures and their disassembly.                          *)
(***************************************************************************)
\* Start addresses procedures may have: two procedures laid out back to back.
\* Two procedures of one Context may have the same start address.
StartAddrs == {0, ProcLen}
\* An address outside every procedure of the Context.
ExtAddr == 2 * ProcLen + 1
\* An absent Option value is the empty set, Some(t) is {t}.
None == {}
Some(t) == {t}

\* Instruction shapes: the semantic groups of the instruction, how its operand
\* designates a target, and the target if the operand yields one.
\*   "imm"   target statically encoded in the instruction
\*   "table" target loaded from a virtual dispatch table
\*   "slot"  target loaded from a table slot at a statically encoded location
\*   "reg"   target held in a register
\*   "ref"   the address of a procedure is taken and stored
\*   "none"  no target operand
\* Targets an operand may designate: the start of either procedure, an
\* address inside the first procedure that starts none, an outside address.
TargetAddrs == {0, 1, ProcLen, ExtAddr}
InsnShapes ==
    {[groups |-> OtherGroups, op |-> "none", target |-> None]}
    \cup {[groups |-> {}, op |-> "ref", target |-> Some(t)] : t \in TargetAddrs}
    \cup {[groups |-> {group_calls}, op |-> "imm", target |-> Some(t)] :
             t \in TargetAddrs}
    \cup {[groups |-> {group_calls}, op |-> "table", target |-> t] :
             t \in {None} \cup {Some(x) : x \in TargetAddrs}}
    \cup {[groups |-> {group_calls}, op |-> "slot", target |-> Some(t)] :
             t \in TargetAddrs}
    \cup {[groups |-> {group_calls}, op |-> "reg", target |-> None]}
    \cup {[groups |-> {group_jumps, 7}, op |-> "imm", target |-> Some(t)] :
             t \in TargetAddrs}

\* detail: whether the disassembly engine holds the instruction's detail.
Insn(addr, shape, detail) ==
    [address |-> addr, groups |-> shape.groups, op |-> shape.op,
     target |-> shape.target, detail |-> detail]

\* ctx.capstone.insn_group_ids(insn): the group ids of the instruction, or Err
\* where the engine holds no detail for it.
insn_group_ids(insn) ==
    IF insn.detail THEN [ok |-> TRUE, ids |-> insn.groups]
    ELSE [ok |-> FALSE, ids |-> {}]

\* The instruction addresses of the binary.
InsnAddrs == 0..(2 * ProcLen - 1)

\* A procedure: its first instruction has any shape, the others are returns.
\* Instructions lie at consecutive addresses from the start address.
Disassembly(start, shape, nodetail) ==
    [k \in 1..ProcLen |->
        IF k = 1 THEN Insn(start, shape, start \notin nodetail)
        ELSE Insn(start + k - 1,
                  [groups |-> OtherGroups, op |-> "none", target |-> None],
                  (start + k - 1) \notin nodetail)]

\* The binary holds one instruction per address: image gives the shape of the
\* first instruction of the code at each start address.
Images == [StartAddrs -> InsnShapes]

Procedure(image, nodetail, s) ==
    [start_address |-> s, disassembly |-> Disassembly(s, image[s], nodetail)]

\* The procedures the debug information lists, by start address.  A start
\* address may be listed more than once.
ProcedureList(image, nodetail, layout) ==
    [k \in 1..Len(layout) |-> Procedure(image, nodetail, layout[k])]

SeqsUpTo(S, n) == UNION {[1..k -> S] : k \in 0..n}

\* What the unit iterator yields: Ok(the procedures of a unit), or Err for a
\* unit header that cannot be read.
OkUnit(ps) == [ok |-> TRUE, procedures |-> ps]
ErrUnit == [ok |-> FALSE, procedures |-> <<>>]
\* Compilation units: a list of procedures cut in two units; bad is the
\* position at which the iterator yields Err, if any.
Units(ps, cut, bad) ==
    LET oks == <<OkUnit(SubSeq(ps, 1, cut)), OkUnit(SubSeq(ps, cut + 1, Len(ps)))>>
    IN  IF bad = None THEN oks
        ELSE LET k == CHOOSE x \in bad : TRUE
             IN  SubSeq(oks, 1, k - 1) \o <<ErrUnit>> \o SubSeq(oks, k, Len(oks))

\* Where the listed procedures are cut in two units: in the middle, which
\* leaves the first unit empty when one procedure is listed.
Cuts(layout) == {Len(layout) \div 2}

\* What may be unreadable in a Context: nothing, the header at one position
\* of the unit iterator, or the detail of the instruction at one address.
Faults ==
    {[unit |-> None, insn |-> None]}
    \cup {[unit |-> Some(k), insn |-> None] :
             k \in 1..(Len(Units(<<>>, 0, None)) + 1)}
    \cup {[unit |-> None, insn |-> Some(a)] : a \in InsnAddrs}

\* Flatten Vec<Vec<Procedure>> to Vec<Procedure>: fold with Vec::append, which
\* ends with Err at the first unit the iterator cannot yield.
RECURSIVE Fold(_, _)
Fold(vec, us) ==
    IF us = <<>> THEN [ok |-> TRUE, vec |-> vec]
    ELSE IF ~Head(us).ok THEN [ok |-> FALSE, vec |-> <<>>]
    ELSE Fold(vec \o Head(us).procedures, Tail(us))
Flatten(us) == Fold(<<>>, us)

Range(f) == {f[x] : x \in DOMAIN f}

\* The Finder variants and the lists a builder may be configured with.
CanonicalFinders == <<"Direct", "ProcedureReference", "VTable", "Jump">>
Reverse(s) == [k \in 1..Len(s) |-> s[Len(s) + 1 - k]]
\* Every order of the four variants, a list of two, and no Finder at all.
FinderLists ==
    {fs \in [1..4 -> Range(CanonicalFinders)] :
        \A k, l \in 1..4 : fs[k] = fs[l] => k = l}
    \cup {<<"Jump", "Direct">>, <<>>}

(***************************************************************************)
(* The graph container and the two indices.                                *)
(***************************************************************************)
\* StableGraph::new(), HashMap::new()
EmptyMap == <<>>

\* StableGraph::add_node / add_edge: the new element gets the next free index,
\* existing indices keep their element.
NextIndex(g) == Cardinality(DOMAIN g)
\* (A container that is not index-stable: the new element takes index 0 and
\* the others move up.)
AddNodeShifting(g, x) ==
    [k \in 0..Cardinality(DOMAIN g) |-> IF k = 0 THEN x ELSE g[k - 1]]
AddNode(g, x) ==
    [k \in 0..Cardinality(DOMAIN g) |-> IF k \in DOMAIN g THEN g[k] ELSE x]

\* HashMap::insert: a present key is overwritten.
MapInsert(m, k, v) ==
    [x \in DOMAIN m \cup {k} |-> IF x = k THEN v ELSE m[x]]

\* (The filter with the JUMP group left out.)
IsCallOnly(insn) ==
    \E id \in insn.groups : id = group_calls
\* (A filter that takes every instruction that is in some group.)
IsAnyGroup(insn) ==
    insn.groups # {}
\* The filter of the population pass: the instruction is in the CALL or in the
\* JUMP group.
IsCallOrJump(insn) ==
    \E id \in insn_group_ids(insn).ids : id = group_calls \/ id = group_jumps

\* insn_group_ids(insn).unwrap() panics on the first instruction of the
\* disassembly for which the engine returns Err.
UnwrapPanics(dis) == \E k \in DOMAIN dis : ~insn_group_ids(dis[k]).ok
\* The instructions the filter has taken when it panics, or all of them.
Unwrapped(dis) ==
    IF UnwrapPanics(dis)
    THEN SubSeq(dis, 1,
                (CHOOSE k \in DOMAIN dis :
                    /\ ~insn_group_ids(dis[k]).ok
                    /\ \A l \in 1..(k - 1) : insn_group_ids(dis[l]).ok) - 1)
    ELSE dis

\* (Indexing that keys an entry by the callee's address where there is one.)
RECURSIVE IndexCallsAtCallee(_, _, _)
IndexCallsAtCallee(ci, dis, idx) ==
    IF dis = <<>> THEN ci
    ELSE IndexCallsAtCallee(
            IF IsCallOrJump(Head(dis))
            THEN MapInsert(ci,
                           IF Head(dis).target = None THEN Head(dis).address
                           ELSE CHOOSE t \in Head(dis).target : TRUE,
                           idx)
            ELSE ci,
            Tail(dis), idx)
\* call_index after every call/jump instruction of the procedure at node idx
\* has been inserted, in disassembly order.
RECURSIVE IndexCalls(_, _, _)
IndexCalls(ci, dis, idx) ==
    IF dis = <<>> THEN ci
    ELSE IndexCalls(
            IF IsCallOrJump(Head(dis))
            THEN MapInsert(ci, Head(dis).address, idx)
            ELSE ci,
            Tail(dis), idx)

(***************************************************************************)
(* Invocation Finders (specification, section 4.2).                        *)
(***************************************************************************)
\* The instruction-address range of a procedure: from its lowest to its
\* highest instruction address.  A placeholder has no instructions.
AddrRange(p) ==
    LET as == {ins.address : ins \in Range(p.disassembly)}
    IN  {a \in 0..ExtAddr : \E lo \in as, hi \in as : lo <= a /\ a <= hi}

InsnAt(n, a) ==
    CHOOSE ins \in Range(nodes[n].disassembly) : ins.address = a

\* Call sites <<enclosing node, instruction address>>, resolved via call_index.
CallSites == {<<call_index[a], a>> : a \in DOMAIN call_index}

\* Address-taking instructions, found in the disassembly of the graph's nodes.
RefSites ==
    UNION {{<<n, ins.address>> :
                ins \in {x \in Range(nodes[n].disassembly) : x.op = "ref"}} :
            n \in DOMAIN nodes}

Sites(f) == IF f = "ProcedureReference" THEN RefSites ELSE CallSites

\* The call site already gained an outgoing edge.
HasEdgeFrom(a) == \E e \in DOMAIN edges : edges[e].instruction_address = a

\* The Jump finder's test for a tail call: the target lies outside the
\* enclosing procedure's instruction-address range.
InOwnRange(n, ins) == \E t \in ins.target : t \in AddrRange(nodes[n])

\* Which instructions each Finder variant detects.
Matches(f, n, ins) ==
    CASE f = "Direct" ->
            group_calls \in ins.groups /\ ins.op \in {"imm", "slot"}
      [] f = "VTable" ->
            group_calls \in ins.groups /\ ins.op \in {"table", "slot"}
      [] f = "ProcedureReference" ->
            ins.op = "ref"
      [] f = "Jump" ->
            /\ group_jumps \in ins.groups
            /\ ins.op = "imm"
            /\ ~InOwnRange(n, ins)

\* (A Finder that does not look for an edge the call site already has.)
AlwaysOpen(a) == TRUE
\* A Finder does not re-process a call site that already has an outgoing edge.
SiteOpen(a) == ~HasEdgeFrom(a) /\ a \notin unresolved

Candidates(f) ==
    {s \in Sites(f) :
        /\ SiteOpen(s[2])
        /\ \E ins \in Range(nodes[s[1]].disassembly) :
                ins.address = s[2] /\ Matches(f, s[1], ins)}

\* The call site a Finder handles next.  The entries of call_index (a HashMap)
\* come in any order; the nodes of the graph are scanned in index order.
NextSites(f) ==
    IF f = "ProcedureReference"
    THEN {s \in Candidates(f) :
            \A t \in Candidates(f) :
                s[1] < t[1] \/ (s[1] = t[1] /\ s[2] <= t[2])}
    ELSE Candidates(f)

\* (A Finder that makes a placeholder for every target.)
NeverDefined(t) == FALSE
\* The target is resolved via proc_index; outside of it a placeholder is made.
IsDefined(t) == t \in DOMAIN proc_index

Placeholder(t) == [start_address |-> t, disassembly |-> <<>>]

Invocation(src, dst, a, f) ==
    [source |-> src, target |-> dst, instruction_address |-> a,
     invocation_type |-> f]

\* One Finder handles one call site.
FindInvocation(f, n, a) ==
    LET ins == InsnAt(n, a)
    IN  IF ins.target = None
        THEN /\ unresolved' = unresolved \cup {a}
             /\ UNCHANGED <<nodes, edges, proc_index, placeholders>>
        ELSE LET t == CHOOSE x \in ins.target : TRUE
             IN  IF IsDefined(t)
                 THEN /\ edges' = AddNode(edges, Invocation(n, proc_index[t], a, f))
                      /\ UNCHANGED <<nodes, proc_index, placeholders, unresolved>>
                 ELSE LET idx == NextIndex(nodes)
                      IN  /\ nodes' = AddNode(nodes, Placeholder(t))
                          /\ placeholders' = placeholders \cup {idx}
                          /\ proc_index' = MapInsert(proc_index, t, idx)
                          /\ edges' = AddNode(edges, Invocation(n, idx, a, f))
                          /\ UNCHANGED unresolved

(***************************************************************************)
(* build_call_graph.                                                       *)
(***************************************************************************)
\* (A builder that keeps its graph from one build to the next.)
StaleBuild ==
    /\ UNCHANGED <<nodes, edges, placeholders>>
    /\ proc_index' = EmptyMap
    /\ call_index' = EmptyMap
\* The graph and both indices are created empty by every build.
FreshBuild ==
    /\ nodes' = EmptyMap
    /\ edges' = EmptyMap
    /\ placeholders' = {}
    /\ proc_index' = EmptyMap
    /\ call_index' = EmptyMap

\* The graph up to isomorphism: nodes of defined procedures keep their
\* position in the Context, a placeholder is known by its address.
NodeKey(g, n) ==
    IF n \in g.placeholders THEN <<"placeholder", g.nodes[n].start_address>>
    ELSE <<"defined", n>>

Canon(g) ==
    [nodes |-> {<<NodeKey(g, n), g.nodes[n]>> : n \in DOMAIN g.nodes},
     node_count |-> Cardinality(DOMAIN g.nodes),
     edges |-> {<<NodeKey(g, g.edges[e].source), NodeKey(g, g.edges[e].target),
                  g.edges[e].instruction_address, g.edges[e].invocation_type>> :
                    e \in DOMAIN g.edges},
     edge_count |-> Cardinality(DOMAIN g.edges)]

\* The CallGraph as it stands.
Graph == [nodes |-> nodes, edges |-> edges, placeholders |-> placeholders]

NoGraph == [nodes |-> EmptyMap, edges |-> EmptyMap, placeholders |-> {}]

(***************************************************************************)
(* The command-line front end: get_args (src/cmd_args.rs) and              *)
(* print_results (src/output.rs).                                          *)
(***************************************************************************)
\* Longest command line examined.
MaxArgs == 3
\* Most panic calls in a collection handed to print_results.
MaxCalls == 2

\* The arguments get_app_definition defines, by name.
ArgNames ==
    {"binary", "crates", "verbose", "json-stream", "config",
     "full_crate_analysis", "silent", "callgraph"}
\* .takes_value(true) or .value_name(..); .multiple(true); .required(true)
TakesValue == {"binary", "crates", "config", "callgraph"}
MultipleArgs == {"crates", "callgraph"}
RequiredArgs == {"binary"}
CALL_GRAPH_BUILD_MODES == {"full", "filtered"}
\* .conflicts_with(..), as declared argument by argument.
ConflictsWith(a) ==
    CASE a = "verbose" -> {"silent"}
      [] a = "json-stream" -> {"silent"}
      [] a = "silent" -> {"verbose", "json"}
      [] OTHER -> {}

\* What may stand on a command line: an argument given by its long option,
\* alone or followed by a value, the parser's own --help and --version, or an
\* option the definition does not know.
Flag(n) == [name |-> n, value |-> None]
Opt(n, v) == [name |-> n, value |-> Some(v)]
ArgValues(n) ==
    CASE n = "binary" -> {"FILE"}
      [] n = "crates" -> {"a"}
      [] n = "config" -> {"c.toml"}
      [] n = "callgraph" -> CALL_GRAPH_BUILD_MODES \cup {"other"}
ArgTokens ==
    {Flag(n) : n \in ArgNames \cup {"help", "version", "bogus"}}
    \cup UNION {{Opt(n, v) : v \in ArgValues(n)} : n \in TakesValue}
CommandLines == SeqsUpTo(ArgTokens, MaxArgs)

\* error.message of each error.kind.
Message(kind) ==
    CASE kind = "HelpDisplayed" -> "USAGE: rustig [FLAGS] [OPTIONS] --binary <FILE>"
      [] kind = "VersionDisplayed" -> "rustig"
      [] kind = "UnknownArgument" ->
            "error: Found argument which wasn't expected"
      [] kind = "ArgumentConflict" ->
            "error: The argument cannot be used with one or more of the other specified arguments"
      [] kind = "MissingRequiredArgument" ->
            "error: The following required arguments were not provided: --binary <FILE>"
      [] kind = "UnexpectedMultipleUsage" ->
            "error: The argument was provided more than once, but cannot be used multiple times"
      [] kind = "EmptyValue" ->
            "error: The argument requires a value but none was supplied"
      [] kind = "TooFewValues" ->
            "error: The argument requires at least 1 values, but only 0 was provided"
      [] kind = "InvalidValue" ->
            "error: The value isn't valid for the argument"

\* The values given to argument n, in command-line order.
RECURSIVE ValuesOf(_, _)
ValuesOf(occurs, n) ==
    IF occurs = <<>> THEN <<>>
    ELSE (IF Head(occurs).name = n /\ Head(occurs).value # None
          THEN <<CHOOSE v \in Head(occurs).value : TRUE>> ELSE <<>>)
         \o ValuesOf(Tail(occurs), n)

ClapErr(kind) == [ok |-> FALSE, kind |-> kind, message |-> Message(kind)]
ClapOk(occurs) ==
    [ok |-> TRUE,
     present |-> {occurs[k].name : k \in DOMAIN occurs},
     values |-> [n \in TakesValue |-> ValuesOf(occurs, n)]]

\* What the parser finds wrong with matched argument a taken alone: its number
\* of values, its values, then its number of occurrences.
ArgErrors(occurs, a) ==
    LET vals == IF a \in TakesValue THEN ValuesOf(occurs, a) ELSE <<>>
        times == Cardinality({k \in DOMAIN occurs : occurs[k].name = a})
    IN  IF a \in TakesValue /\ vals = <<>>
        THEN {IF a = "callgraph" THEN "TooFewValues" ELSE "EmptyValue"}
        ELSE IF a = "callgraph" /\ ~(Range(vals) \subseteq CALL_GRAPH_BUILD_MODES)
        THEN {"InvalidValue"}
        ELSE IF times > 1 /\ a \notin MultipleArgs
        THEN {"UnexpectedMultipleUsage"}
        ELSE {}

\* The parser validates what it matched: an option left without value at the
\* end of the line, conflicts, required arguments, then the matched arguments
\* one by one in no specified order.  The result is any the parser may give.
ValidateMatches(occurs) ==
    LET present == {occurs[k].name : k \in DOMAIN occurs}
        last == occurs[Len(occurs)]
        found == UNION {ArgErrors(occurs, a) : a \in present}
    IN  IF /\ occurs # <<>>
           /\ last.name \in TakesValue
           /\ last.value = None
           /\ ValuesOf(occurs, last.name) = <<>>
        THEN {ClapErr("EmptyValue")}
        ELSE IF \E a \in present : ConflictsWith(a) \cap present # {}
        THEN {ClapErr("ArgumentConflict")}
        ELSE IF ~(RequiredArgs \subseteq present)
        THEN {ClapErr("MissingRequiredArgument")}
        ELSE IF found # {}
        THEN {ClapErr(kind) : kind \in found}
        ELSE {ClapOk(occurs)}

\* The parser reads the command line left to right; --help, --version and
\* an unknown argument end the parse where they stand.
RECURSIVE ParseFrom(_, _)
ParseFrom(argv, occurs) ==
    IF argv = <<>> THEN ValidateMatches(occurs)
    ELSE IF Head(argv).name = "help" THEN {ClapErr("HelpDisplayed")}
    ELSE IF Head(argv).name = "version" THEN {ClapErr("VersionDisplayed")}
    ELSE IF Head(argv).name \notin ArgNames THEN {ClapErr("UnknownArgument")}
    ELSE ParseFrom(Tail(argv), Append(occurs, Head(argv)))

\* get_app_definition().get_matches_safe(): the results the parse may have.
get_matches_safe(argv) == ParseFrom(argv, <<>>)

\* (A get_args that exits with status 0 whatever the error.)
ExitSuccess(kind) == 0
\* The status get_args exits with, by error.kind.
ExitStatus(kind) ==
    IF kind = "HelpDisplayed" THEN 0
    ELSE IF kind = "VersionDisplayed" THEN 0
    ELSE 101

\* cmd_matches.value_of(name): the first value, if there is one.
value_of(cmd_matches, name) ==
    IF cmd_matches.values[name] = <<>> THEN None
    ELSE Some(cmd_matches.values[name][1])
\* parse_multiple_args
parse_multiple_args(cmd_matches, name) == cmd_matches.values[name]

\* The AnalysisOptions and OutputOptions get_args builds from the matches.
AnalysisOptions(cmd_matches) ==
    LET callgraph_outputs == parse_multiple_args(cmd_matches, "callgraph")
    IN  [binary_path |-> value_of(cmd_matches, "binary"),
         crate_names |-> parse_multiple_args(cmd_matches, "crates"),
         whitelisted_functions |-> "file_options.function_whitelists",
         output_filtered_callgraph |-> "filtered" \in Range(callgraph_outputs),
         output_full_callgraph |-> "full" \in Range(callgraph_outputs),
         full_crate_analysis |-> "full_crate_analysis" \in cmd_matches.present]
OutputOptions(cmd_matches) ==
    [verbose |-> "verbose" \in cmd_matches.present,
     silent |-> "silent" \in cmd_matches.present,
     json |-> "json-stream" \in cmd_matches.present]
\* parse_config(path, required)? either yields the file options or makes
\* get_args return its error.
GetArgsResults(cmd_matches) ==
    LET config_opt == value_of(cmd_matches, "config")
        required == config_opt # None
        path == IF required THEN CHOOSE c \in config_opt : TRUE
                ELSE "rustig.toml"
    IN  {[ok |-> TRUE, analysis |-> AnalysisOptions(cmd_matches),
          output |-> OutputOptions(cmd_matches),
          config |-> <<path, required>>],
         [ok |-> FALSE, analysis |-> "ConfigLoad", output |-> "ConfigLoad",
          config |-> <<path, required>>]}

\* Panic traces a collection may hold, told apart by their pattern.
PanicTraces == {"unwrap", "indexing", "arithmetic"}
PanicCallsCollections == [calls : SeqsUpTo(PanicTraces, MaxCalls)]
AllOutputOptions == [silent : BOOLEAN, verbose : BOOLEAN, json : BOOLEAN]

\* (A selection that pushes a stream for every flag that is set.)
StreamPerFlag(opts) ==
    [streams |->
        IF opts.silent THEN <<>>
        ELSE (IF opts.json THEN <<"JsonConsoleOutputStream">> ELSE <<>>)
             \o (IF opts.verbose THEN <<"VerboseConsoleOutputStream">> ELSE <<>>)
             \o (IF ~opts.json /\ ~opts.verbose
                 THEN <<"SimpleConsoleOutputStream">> ELSE <<>>)]
\* get_output_streams: the OutputStreamsCollection for the options.
get_output_streams(opts) ==
    [streams |->
        IF opts.silent THEN <<>>
        ELSE IF opts.json THEN <<"JsonConsoleOutputStream">>
        ELSE IF opts.verbose THEN <<"VerboseConsoleOutputStream">>
        ELSE <<"SimpleConsoleOutputStream">>]

\* (panic_calls.calls.len() as f64).log10().ceil() as usize
Width(n) == CHOOSE w \in 0..n : 10 ^ w >= n /\ (w = 0 \/ 10 ^ (w - 1) < n)

\* print_output of each stream: the lines it writes to standard output.
print_output(stream, panic_calls) ==
    LET n == Len(panic_calls.calls)
    IN  CASE stream = "SimpleConsoleOutputStream" ->
                [k \in 1..n |->
                    [stream |-> stream, label |-> None,
                     trace |-> panic_calls.calls[k]]]
          [] stream = "VerboseConsoleOutputStream" ->
                <<[stream |-> stream, count |-> n]>>
                \o [k \in 1..n |->
                    [stream |-> stream, label |-> Some(<<k, Width(n)>>),
                     trace |-> panic_calls.calls[k]]]
          [] stream = "JsonConsoleOutputStream" ->
                [k \in 1..n |->
                    [stream |-> stream, label |-> Some(k - 1),
                     trace |-> panic_calls.calls[k]]]

\* The loop of print_results over the streams of the collection.
RECURSIVE EachStream(_, _)
EachStream(streams, panic_calls) ==
    IF streams = <<>> THEN <<>>
    ELSE print_output(Head(streams), panic_calls)
         \o EachStream(Tail(streams), panic_calls)

\* The front end before the process starts, and the builder when not run.
CliIdle ==
    /\ args = <<>>
    /\ cpc = "idle"
    /\ stderr = <<>>
    /\ exit_status = None
    /\ ret = None
    /\ options = [verbose |-> FALSE, silent |-> FALSE, json |-> FALSE]
    /\ results = <<>>
    /\ used = <<>>
    /\ stdout = <<>>
BuilderIdle ==
    /\ units = <<>>
    /\ procs = <<>>
    /\ finders = <<>>
    /\ nodes = EmptyMap
    /\ edges = EmptyMap
    /\ proc_index = EmptyMap
    /\ call_index = EmptyMap
    /\ placeholders = {}
    /\ unresolved = {}
    /\ i = 0
    /\ fi = 0
    /\ active = {}
    /\ calls = <<>>
    /\ pc = "idle"
    /\ run = 1
    /\ first = NoGraph

\* Every unit header of the Context can be read and the engine holds the
\* detail of every instruction of its procedures.
Readable(us) ==
    /\ Flatten(us).ok
    /\ \A p \in Range(Flatten(us).vec) : ~UnwrapPanics(p.disassembly)

\* A Context with an unreadable item is built with the canonical Finder list:
\* its build ends before a Finder is reached.
Init ==
    /\ CliIdle
    /\ \E image \in Images : \E layout \in SeqsUpTo(StartAddrs, MaxProcs) :
            \E cut \in Cuts(layout) : \E fault \in Faults :
                units = Units(ProcedureList(image, fault.insn, layout), cut,
                              fault.unit)
    /\ finders \in IF Readable(units) THEN FinderLists ELSE {CanonicalFinders}
    /\ procs = <<>>
    /\ nodes = EmptyMap
    /\ edges = EmptyMap
    /\ proc_index = EmptyMap
    /\ call_index = EmptyMap
    /\ placeholders = {}
    /\ unresolved = {}
    /\ i = 0
    /\ fi = 0
    /\ active = {}
    /\ calls = <<>>
    /\ pc = "flatten"
    /\ run = 1
    /\ first = NoGraph

\* The fold over the units and its .expect("Failed to flatten"): the
\* procedures of all units in one list, or a panic.
FlattenUnits ==
    /\ pc = "flatten"
    /\ LET flat == Flatten(units)
       IN  IF flat.ok
           THEN procs' = flat.vec /\ pc' = "build"
           ELSE pc' = "panicked" /\ UNCHANGED procs
    /\ UNCHANGED <<units, finders, nodes, edges, proc_index, call_index,
                   placeholders, unresolved, i, fi, active, calls, run, first,
                   cliVars>>

\* (A builder that calls the Finders from inside the population loop.)
PopulationStarted == i >= 1 \/ Len(procs) = 0
\* The population pass has consumed every procedure.
PopulationDone == i = Len(procs)

\* (A builder that starts a Finder without waiting for the last.)
FinderAny == TRUE
\* No Finder is executing: for_each calls the next one when the last returned.
FinderIdle == active = {}

\* (A population pass that adds no node for a start address already indexed.)
PopulateSkippingKnown ==
    /\ pc = "build"
    /\ i < Len(procs)
    /\ LET procedure == procs[i + 1]
           address == procedure.start_address
           idx == NextIndex(nodes)
       IN  IF address \in DOMAIN proc_index
           THEN UNCHANGED <<nodes, call_index, proc_index>>
           ELSE /\ nodes' = AddNode(nodes, procedure)
                /\ call_index' = IndexCalls(call_index, nodes'[idx].disassembly, idx)
                /\ proc_index' = MapInsert(proc_index, address, idx)
    /\ i' = i + 1
    /\ UNCHANGED <<units, procs, finders, edges, placeholders, unresolved, fi, active,
                   calls, pc, run, first, cliVars>>
\* One iteration of the population pass (the for_each closure).
Populate ==
    /\ pc = "build"
    /\ i < Len(procs)
    /\ LET procedure == procs[i + 1]
           address == procedure.start_address
           idx == NextIndex(nodes)
           disassembly == nodes'[idx].disassembly
       IN  /\ nodes' = AddNode(nodes, procedure)
           /\ call_index' = IndexCalls(call_index, Unwrapped(disassembly), idx)
           /\ IF UnwrapPanics(disassembly)
              THEN /\ pc' = "panicked"
                   /\ UNCHANGED <<proc_index, i>>
              ELSE /\ proc_index' = MapInsert(proc_index, address, idx)
                   /\ i' = i + 1
                   /\ UNCHANGED pc
    /\ UNCHANGED <<units, procs, finders, edges, placeholders, unresolved, fi,
                   active, calls, run, first, cliVars>>

\* The builder invokes the next Finder of the list.
FinderCall ==
    /\ pc = "build"
    /\ PopulationDone
    /\ FinderIdle
    /\ fi < Len(finders)
    /\ fi' = fi + 1
    /\ active' = active \cup {fi + 1}
    /\ calls' = Append(calls, fi + 1)
    /\ UNCHANGED <<units, procs, finders, nodes, edges, proc_index, call_index,
                   placeholders, unresolved, i, pc, run, first, cliVars>>

\* An executing Finder handles one of the call sites it detects.
FinderStep ==
    /\ pc = "build"
    /\ \E f \in active : \E s \in NextSites(finders[f]) :
            FindInvocation(finders[f], s[1], s[2])
    /\ UNCHANGED <<units, procs, finders, call_index, i, fi, active, calls, pc, run,
                   first, cliVars>>

\* An executing Finder has no call site left and returns.
FinderReturn ==
    /\ pc = "build"
    /\ \E f \in active :
            /\ Candidates(finders[f]) = {}
            /\ active' = active \ {f}
    /\ UNCHANGED <<units, procs, finders, nodes, edges, proc_index, call_index,
                   placeholders, unresolved, i, fi, calls, pc, run, first, cliVars>>

\* (A builder that returns only if every call site got an edge.)
ReturnIfAllResolved ==
    /\ pc = "build"
    /\ PopulationDone
    /\ fi = Len(finders)
    /\ active = {}
    /\ \A a \in DOMAIN call_index : HasEdgeFrom(a)
    /\ pc' = "done"
    /\ UNCHANGED <<units, procs, finders, nodes, edges, proc_index, call_index,
                   placeholders, unresolved, i, fi, active, calls, run, first, cliVars>>
\* Every Finder has run: the CallGraph is returned.
Return ==
    /\ pc = "build"
    /\ PopulationDone
    /\ fi = Len(finders)
    /\ active = {}
    /\ pc' = "done"
    /\ UNCHANGED <<units, procs, finders, nodes, edges, proc_index, call_index,
                   placeholders, unresolved, i, fi, active, calls, run, first, cliVars>>

\* The builder is run a second time on the same Context.
Rerun ==
    /\ pc = "done"
    /\ run = 1
    /\ first' = Graph
    /\ run' = 2
    /\ FreshBuild
    /\ unresolved' = {}
    /\ i' = 0
    /\ fi' = 0
    /\ active' = {}
    /\ calls' = <<>>
    /\ procs' = <<>>
    /\ pc' = "flatten"
    /\ UNCHANGED <<units, finders, cliVars>>

Next == FlattenUnits \/ Populate \/ FinderCall \/ FinderStep \/ FinderReturn \/ Return

Spec == Init /\ [][Next]_vars

NextRerun == Next \/ Rerun

SpecRerun == Init /\ [][NextRerun]_vars

\* The build is one thread that is never suspended: it keeps stepping.
FairSpec == Spec /\ WF_vars(Next)

(***************************************************************************)
(* get_args                                                                *)
(***************************************************************************)
InitArgs ==
    /\ BuilderIdle
    /\ args \in CommandLines
    /\ cpc = "start"
    /\ stderr = <<>>
    /\ exit_status = None
    /\ ret = None
    /\ options = [verbose |-> FALSE, silent |-> FALSE, json |-> FALSE]
    /\ results = <<>>
    /\ used = <<>>
    /\ stdout = <<>>

\* get_args: parse; on an error print its message and exit, otherwise load
\* the configuration and return the options.
get_args ==
    /\ cpc = "start"
    /\ \E cmd_matches_opt \in get_matches_safe(args) :
           IF ~cmd_matches_opt.ok
           THEN /\ stderr' = Append(stderr, cmd_matches_opt.message)
                /\ exit_status' = Some(ExitStatus(cmd_matches_opt.kind))
                /\ cpc' = "exited"
                /\ UNCHANGED ret
           ELSE /\ \E r \in GetArgsResults(cmd_matches_opt) : ret' = Some(r)
                /\ cpc' = "returned"
                /\ UNCHANGED <<stderr, exit_status>>
    /\ UNCHANGED <<units, procs, finders, nodes, edges, proc_index, call_index,
                   placeholders, unresolved, i, fi, active, calls, pc, run,
                   first, args, options, results, used, stdout>>

NextArgs == get_args

SpecArgs == InitArgs /\ [][NextArgs]_vars

(***************************************************************************)
(* print_results                                                           *)
(***************************************************************************)
InitOutput ==
    /\ BuilderIdle
    /\ args = <<>>
    /\ cpc = "print"
    /\ stderr = <<>>
    /\ exit_status = None
    /\ ret = None
    /\ options \in AllOutputOptions
    /\ results \in PanicCallsCollections
    /\ used = <<>>
    /\ stdout = <<>>

\* print_results: every stream selected for the options prints the results.
print_results ==
    /\ cpc = "print"
    /\ LET output_streams == get_output_streams(options)
       IN  /\ used' = used \o output_streams.streams
           /\ stdout' = stdout \o EachStream(output_streams.streams, results)
    /\ cpc' = "printed"
    /\ UNCHANGED <<units, procs, finders, nodes, edges, proc_index, call_index,
                   placeholders, unresolved, i, fi, active, calls, pc, run,
                   first, args, stderr, exit_status, ret, options, results>>

NextOutput == print_results

SpecOutput == InitOutput /\ [][NextOutput]_vars

(***************************************************************************)
(* Properties.                                                             *)
(***************************************************************************)
Injective(m) == \A x, y \in DOMAIN m : m[x] = m[y] => x = y

Defined == DOMAIN nodes \ placeholders

EdgesFrom(a) == {e \in DOMAIN edges : edges[e].instruction_address = a}

\* Two procedures of the Context have the same start address.
DuplicateStart ==
    \E k, l \in 1..Len(procs) :
        k # l /\ procs[k].start_address = procs[l].start_address

\* C1: in a returned CallGraph proc_index is injective and no two distinct
\* nodes share a start address.
C1_Uniqueness ==
    pc = "done" =>
        /\ Injective(proc_index)
        /\ \A n, m \in DOMAIN nodes :
              n # m => nodes[n].start_address # nodes[m].start_address

\* C2: every entry (addr, node) of call_index has addr among the instruction
\* addresses of the procedure stored at node, hence within its address range.
C2_Containment ==
    \A a \in DOMAIN call_index :
        /\ call_index[a] \in DOMAIN nodes
        /\ \E ins \in Range(nodes[call_index[a]].disassembly) : ins.address = a
        /\ a \in AddrRange(nodes[call_index[a]])

\* A returned graph where an instruction address occurs in two procedures and
\* Finders added a placeholder after the population pass.
C2_Witness ==
    /\ pc = "done"
    /\ DuplicateStart
    /\ call_index # EmptyMap
    /\ placeholders # {}

\* C3: whatever the order of the Finders, at most one Invocation edge
\* originates from any instruction address.
C3_NoDuplicateEdges ==
    \A a \in 0..ExtAddr : Cardinality(EdgesFrom(a)) <= 1

\* The reversed Finder order has run on a call site that two Finders detect
\* (the VTable finder came first and the Direct finder left the site alone).
C3_Witness ==
    /\ pc = "done"
    /\ finders = Reverse(CanonicalFinders)
    /\ \E a \in DOMAIN call_index :
          /\ InsnAt(call_index[a], a).op = "slot"
          /\ \E e \in EdgesFrom(a) : edges[e].invocation_type = "VTable"

\* C4: a second build of the same Context with the same Finder list returns a
\* graph isomorphic to the first in nodes, edges and edge types.
C4_IdempotentRerun ==
    (pc = "done" /\ run = 2) => Canon(Graph) = Canon(first)

\* Both builds returned; they numbered their edges differently.
C4_Witness ==
    /\ pc = "done"
    /\ run = 2
    /\ placeholders # {}
    /\ edges # first.edges

\* C5: every placeholder has an incoming edge, and a placeholder is created
\* only together with an edge to it whose target address is not a key of
\* proc_index at that moment.
C5_PlaceholderMinimality ==
    /\ [](\A n \in placeholders : \E e \in DOMAIN edges : edges[e].target = n)
    /\ [][\A n \in placeholders' \ placeholders :
            /\ nodes'[n].start_address \notin DOMAIN proc_index
            /\ \E e \in DOMAIN edges' \ DOMAIN edges : edges'[e].target = n]_vars

\* A returned graph with one placeholder that two call sites target, and a
\* call site whose target was resolved to a defined procedure.
C5_Witness ==
    /\ pc = "done"
    /\ \E n \in placeholders :
          Cardinality({e \in DOMAIN edges : edges[e].target = n}) = 2
    /\ Cardinality(DOMAIN nodes) = Len(procs) + 1

\* Every procedure of the Context is a node and is indexed.
AllIndexed ==
    /\ Cardinality(Defined) = Len(procs)
    /\ \A k \in 1..Len(procs) :
          /\ procs[k].start_address \in DOMAIN proc_index
          /\ \A ins \in Range(procs[k].disassembly) :
                IsCallOrJump(ins) => ins.address \in DOMAIN call_index

\* C6: the Finders are invoked once each, in list order, one at a time, and
\* the first only after every procedure is a node and indexed.
C6_FinderSequencing ==
    /\ \A k \in 1..Len(calls) : calls[k] = k
    /\ Len(calls) <= Len(finders)
    /\ Cardinality(active) <= 1
    /\ \A f \in active : f = Len(calls)
    /\ calls # <<>> => AllIndexed
    /\ pc = "done" => (Len(calls) = Len(finders) /\ active = {})

\* The third Finder of four is executing on a populated graph.
C6_Witness ==
    /\ active = {3}
    /\ Len(finders) = 4
    /\ Len(procs) = MaxProcs
    /\ edges # EmptyMap

\* C7 as claimed: no edge before the first Finder runs, and the set of nodes
\* does not change once the Finder pass has begun.
C7_NodesOnlyInPopulation ==
    [][/\ calls' = <<>> => edges' = EmptyMap
       /\ calls # <<>> => nodes' = nodes]_vars

\* C7 amended: no edge before the first Finder runs; once the Finder pass has
\* begun the nodes of defined procedures do not change and every node added
\* is a placeholder; during the population pass no placeholder is added.
C7_OnlyPlaceholdersInFinderPass ==
    [][/\ calls' = <<>> => (edges' = EmptyMap /\ placeholders' = {})
       /\ calls # <<>> =>
            /\ \A n \in DOMAIN nodes : n \in DOMAIN nodes' /\ nodes'[n] = nodes[n]
            /\ DOMAIN nodes' \ DOMAIN nodes \subseteq placeholders'
            /\ placeholders \subseteq placeholders']_vars

\* A Finder has added a placeholder node to a graph of two procedures.
C7_Witness ==
    /\ calls # <<>>
    /\ Cardinality(Defined) = MaxProcs
    /\ placeholders # {}
    /\ edges # EmptyMap

\* C8: an index once assigned keeps its Procedure or Invocation, and every
\* entry of proc_index and call_index designates a node of the graph; the
\* node at proc_index[a] has start address a.
C8_IndexStability ==
    /\ [][/\ \A n \in DOMAIN nodes : n \in DOMAIN nodes' /\ nodes'[n] = nodes[n]
          /\ \A e \in DOMAIN edges : e \in DOMAIN edges' /\ edges'[e] = edges[e]
         ]_vars
    /\ [](/\ \A a \in DOMAIN proc_index :
                /\ proc_index[a] \in DOMAIN nodes
                /\ nodes[proc_index[a]].start_address = a
          /\ \A a \in DOMAIN call_index : call_index[a] \in DOMAIN nodes)

\* A returned graph to which Finders added a placeholder and two edges after
\* the indices were filled.
C8_Witness ==
    /\ pc = "done"
    /\ placeholders # {}
    /\ Cardinality(DOMAIN edges) >= 2
    /\ Cardinality(DOMAIN proc_index) >= 3

\* No configured Finder detects the instruction at call site a, or the one
\* that does cannot resolve its target.
Unclassified(a) ==
    LET ins == InsnAt(call_index[a], a)
    IN  \/ \A k \in 1..Len(finders) : ~Matches(finders[k], call_index[a], ins)
        \/ ins.target = None

\* C9: the build of a Context whose units and instructions can all be read
\* returns, whatever edges are missing; a build panics only on a Context
\* where one cannot; and in a returned graph a call/jump instruction no
\* Finder classifies is left without outgoing edge.
C9_NeverFailsOnMissingEdges ==
    /\ Readable(units) => <>(pc = "done")
    /\ [](pc = "panicked" => ~Readable(units))
    /\ [](pc = "done" =>
            \A a \in DOMAIN call_index : Unclassified(a) => EdgesFrom(a) = {})

\* A returned graph with a call site without edge next to one with an edge.
C9_Witness ==
    /\ pc = "done"
    /\ \E a \in DOMAIN call_index : Unclassified(a) /\ EdgesFrom(a) = {}
    /\ edges # EmptyMap

\* A Jump-type edge from the jump instruction ins of procedure p to the node
\* at its target address.
JumpEdge(p, ins) ==
    \E e \in EdgesFrom(ins.address) :
        /\ edges[e].invocation_type = "Jump"
        /\ nodes[edges[e].source].start_address = p.start_address
        /\ edges[e].source \in Defined
        /\ nodes[edges[e].target].start_address \in ins.target

TargetInRange(p, ins) == \E t \in ins.target : t \in AddrRange(p)

\* C10: after a pass that includes the Jump finder, a jump-class instruction
\* of procedure p has a Jump edge from p to its target exactly when the target
\* lies outside p's address range, and no edge at all when it lies inside.
C10_JumpFinder ==
    (pc = "done" /\ "Jump" \in Range(finders)) =>
        \A k \in 1..Len(procs) : \A ins \in Range(procs[k].disassembly) :
            group_jumps \in ins.groups =>
                IF TargetInRange(procs[k], ins)
                THEN EdgesFrom(ins.address) = {}
                ELSE /\ JumpEdge(procs[k], ins)
                     /\ Cardinality(EdgesFrom(ins.address)) = 1

\* A tail-call jump from one defined procedure to another got its Jump edge,
\* and a jump inside its own procedure got none.
C10_Witness ==
    /\ pc = "done"
    /\ "Jump" \in Range(finders)
    /\ \E k, l \in 1..Len(procs) :
          /\ k # l
          /\ \E ins \in Range(procs[k].disassembly) :
                /\ group_jumps \in ins.groups
                /\ procs[l].start_address \in ins.target
                /\ JumpEdge(procs[k], ins)
                /\ \E e \in EdgesFrom(ins.address) : edges[e].target \in Defined
          /\ \E ins \in Range(procs[l].disassembly) :
                /\ group_jumps \in ins.groups
                /\ TargetInRange(procs[l], ins)
                /\ EdgesFrom(ins.address) = {}

(***************************************************************************)
(* C11                                                                     *)
(***************************************************************************)
\* The command line holds --help or --version before any argument the
\* definition does not know.
RECURSIVE AsksHelpOrVersion(_)
AsksHelpOrVersion(argv) ==
    /\ argv # <<>>
    /\ \/ Head(argv).name \in {"help", "version"}
       \/ Head(argv).name \in ArgNames /\ AsksHelpOrVersion(Tail(argv))

\* The names on the command line.
Named(argv) == {argv[k].name : k \in DOMAIN argv}

\* C11: once get_args has acted on a command line whose parse fails with
\* anything but help-displayed or version-displayed, the parser's message is
\* on stderr, the process has exited with status 101 and get_args has
\* returned no options to analyse with; the command line without --binary
\* (and without --help or --version) is such a failure, the empty one with
\* the message naming --binary <FILE>; and the process exits with status 0
\* exactly when help or version was displayed.
C11_ParseFailureExits ==
    cpc \in {"exited", "returned"} =>
        LET failed == \A m \in get_matches_safe(args) :
                        ~m.ok /\ m.kind \notin {"HelpDisplayed", "VersionDisplayed"}
        IN  /\ failed =>
                /\ cpc = "exited"
                /\ exit_status = Some(101)
                /\ \E m \in get_matches_safe(args) : stderr = <<m.message>>
                /\ ret = None
            /\ ("binary" \notin Named(args) /\ ~AsksHelpOrVersion(args)) =>
                /\ failed
                /\ exit_status = Some(101)
                /\ ret = None
            /\ args = <<>> =>
                stderr = <<"error: The following required arguments were not provided: --binary <FILE>">>
            /\ exit_status = Some(0) <=> AsksHelpOrVersion(args)
            /\ exit_status \subseteq {0, 101}
            /\ exit_status # None => ret = None
            /\ ret # None => (exit_status = None /\ stderr = <<>>)

\* get_args has exited with 101 on a command line that names arguments the
\* definition knows, with their values, but not the binary.
C11_Witness ==
    /\ cpc = "exited"
    /\ Len(args) >= 2
    /\ Named(args) \subseteq ArgNames \ {"binary"}
    /\ \A k \in DOMAIN args : args[k].name \in TakesValue => args[k].value # None
    /\ exit_status = Some(101)
    /\ stderr = <<Message("MissingRequiredArgument")>>

(***************************************************************************)
(* C12, C13                                                                *)
(***************************************************************************)
\* The population pass is over and no Finder has been called yet.
AfterPopulation == pc = "build" /\ PopulationDone /\ fi = 0

\* C12: after the population pass the graph has one node per element of the
\* flattened procedure list (as many nodes as the list is long, the k-th
\* node holding the k-th procedure), and every procedure's start address is
\* a key of proc_index whose node holds a procedure with that start address.
C12_NodePopulation ==
    AfterPopulation =>
        /\ Cardinality(DOMAIN nodes) = Len(procs)
        /\ \A k \in 1..Len(procs) :
              /\ (k - 1) \in DOMAIN nodes
              /\ nodes[k - 1] = procs[k]
              /\ procs[k].start_address \in DOMAIN proc_index
              /\ proc_index[procs[k].start_address] \in DOMAIN nodes
              /\ nodes[proc_index[procs[k].start_address]].start_address
                    = procs[k].start_address
        /\ DOMAIN proc_index = {procs[k].start_address : k \in 1..Len(procs)}

\* The pass has populated a list in which a start address occurs twice.
C12_Witness ==
    /\ AfterPopulation
    /\ Len(procs) = MaxProcs
    /\ Cardinality(DOMAIN nodes) = MaxProcs
    /\ Cardinality(DOMAIN proc_index) < Len(procs)

\* The instructions of the call class or the jump class, over all procedures.
CallOrJumpClass ==
    {ins \in UNION {Range(procs[k].disassembly) : k \in 1..Len(procs)} :
        group_calls \in ins.groups \/ group_jumps \in ins.groups}

\* C13: after the population pass the keys of call_index are exactly the
\* addresses of the call-class and jump-class instructions of all procedures,
\* and each key maps to a node whose disassembly holds the instruction at
\* that address (the caller), whatever the instruction's target is.
C13_CallIndexKeys ==
    AfterPopulation =>
        /\ DOMAIN call_index = {ins.address : ins \in CallOrJumpClass}
        /\ \A ins \in CallOrJumpClass :
              /\ call_index[ins.address] \in DOMAIN nodes
              /\ ins \in Range(nodes[call_index[ins.address]].disassembly)

\* The pass has indexed a call whose callee is another procedure of the
\* list, next to instructions of another class that it left out.
C13_Witness ==
    /\ AfterPopulation
    /\ \E ins \in CallOrJumpClass : \E t \in ins.target :
          /\ t \in DOMAIN proc_index
          /\ proc_index[t] # call_index[ins.address]
    /\ \E k \in 1..Len(procs) : \E ins \in Range(procs[k].disassembly) :
          ins.groups = OtherGroups /\ ins.address \notin DOMAIN call_index

(***************************************************************************)
(* C14                                                                     *)
(***************************************************************************)
\* The traces standard output shows, in the order printed.
TracesShown ==
    LET lines == {k \in DOMAIN stdout : "trace" \in DOMAIN stdout[k]}
        RECURSIVE Pick(_)
        Pick(k) == IF k > Len(stdout) THEN <<>>
                   ELSE (IF k \in lines THEN <<stdout[k].trace>> ELSE <<>>)
                        \o Pick(k + 1)
    IN  Pick(1)

\* C14: whatever the silent, json and verbose flags are, once print_results
\* has run it has called print_output on no stream and written nothing if
\* silent is set, and otherwise on exactly one stream: the JSON stream if
\* json is set, else the verbose stream if verbose is set, else the simple
\* stream; every line written is that stream's, and the traces of the
\* collection are written once each, in order.
C14_OneStreamByPriority ==
    cpc = "printed" =>
        /\ options.silent => used = <<>> /\ stdout = <<>>
        /\ ~options.silent =>
              /\ Len(used) = 1
              /\ options.json => used[1] = "JsonConsoleOutputStream"
              /\ (~options.json /\ options.verbose) =>
                    used[1] = "VerboseConsoleOutputStream"
              /\ (~options.json /\ ~options.verbose) =>
                    used[1] = "SimpleConsoleOutputStream"
              /\ \A k \in DOMAIN stdout : stdout[k].stream = used[1]
              /\ TracesShown = results.calls
        /\ Len(TracesShown) <= Len(results.calls)

\* print_results has printed a collection of several traces through the
\* JSON stream although verbose was set as well.
C14_Witness ==
    /\ cpc = "printed"
    /\ ~options.silent /\ options.json /\ options.verbose
    /\ Len(results.calls) = MaxCalls
    /\ used = <<"JsonConsoleOutputStream">>
    /\ Len(stdout) = MaxCalls

====
